---- MODULE Spec2Model ----
(***************************************************************************)
(* Model of torch/utils/data/decorator.py: the functional_datapipe         *)
(* registration decorator, the process-wide determinism flag with its      *)
(* guard and the non_deterministic decorator, and the construct-time and   *)
(* runtime type validation wrappers.                                       *)
(*                                                                         *)
(* Python values are modelled as strings ("None", "True", class names,     *)
(* function names); objects that have identity (non_deterministic          *)
(* instances, guards) live in sequences ordered by construction.           *)
(***************************************************************************)
EXTENDS Integers, Sequences, FiniteSets, TLC

\* Largest number of guards alive (constructed, not yet exited) at once.
MaxGuards == 3
\* Largest number of non_deterministic decorator objects.
MaxND == 1
\* Longest underlying sequence a validated __iter__ is run on.
MaxItems == 3

\* ---------------------------------------------------------------- values
None == "None"

\* Classes a decorator can be handed: one IterDataPipe subclass, the base
\* class itself is left out, and one class outside the hierarchy.
IterDataPipeClasses == {"Shuffler"}
Classes == IterDataPipeClasses \cup {"Plain"}

\* isinstance(x, Type)
IsType(x) == x \in Classes

\* issubclass(c, IterDataPipe)
IsSubclassIterDataPipe(c) == c \in IterDataPipeClasses

\* The functions handed to non_deterministic in its function-argument form.
Fns == {"always", "by_arg", "count"}

\* Plain data values used as constructor arguments.
DataArgs == {"x", "y"}

\* Names under which functional_datapipe registers.
FunctionNames == {"map", "shuffle"}

\* A value that is neither a class nor callable.
NonCallables == {"42"}

\* isinstance(x, Callable): classes and functions are callable.
IsCallable(x) == x \in Classes \cup Fns

\* What a deterministic_fn returns on an argument: "always" reports every
\* instance as non-deterministic, "by_arg" only those built from "x", and
\* "count" returns an int instead of a bool.
FnResult(fn, a) ==
    CASE fn = "always" -> "True"
      [] fn = "by_arg" -> IF a = "x" THEN "True" ELSE "False"
      [] OTHER         -> "1"

\* isinstance(res, bool)
IsBool(res) == res \in {"True", "False"}

\* The element types of DataPipes, the data items, and the type of an item.
Types == {"Any", "int", "str"}
Items == {"1", "a"}
TypeOf(d) == IF d = "1" THEN "int" ELSE "str"

\* a.issubtype(b) of torch.utils.data.typing: every type is a subtype of
\* itself and of Any.
issubtype(a, b) == b = "Any" \/ a = b

\* t.issubtype_of_instance(d): d is an instance of a subtype of t.
issubtype_of_instance(t, d) == issubtype(TypeOf(d), t)

\* The IterDataPipe objects of the program and a value that is none.
PipeIds == {"p1", "p2"}
NonPipes == {"x"}

\* isinstance(value, IterDataPipe)
IsIterDataPipe(value) == value \in PipeIds

\* Type hints of a parameter: none, a hint that is no DataPipe type (int),
\* or a DataPipe type DataPipe[t], an instance of _DataPipeMeta.
NoHint == [dp |-> FALSE, type |-> None]
PlainHint(t) == [dp |-> FALSE, type |-> t]
DataPipeHint(t) == [dp |-> TRUE, type |-> t]
Hints == {NoHint, PlainHint("int"), DataPipeHint("Any"), DataPipeHint("int")}

\* Number of parameters of a decorated constructor.
NumParams == 2

\* Signatures of a decorated constructor (one hint per parameter; every
\* parameter after the first has a default) and the argument lists that
\* bind to them.
Signatures == [1..NumParams -> Hints]
ArgLists == UNION {[1..n -> PipeIds \cup NonPipes] : n \in 1..NumParams}

\* Underlying sequences of a DataPipe's __iter__.
Sources == UNION {[1..n -> Items] : n \in 0..MaxItems}

\* ----------------------------------------------------------------- state
VARIABLES
    determinism,   \* the module global _determinism
    guards,        \* live guaranteed_datapipes_determinism objects, in construction order
    nested,        \* usage discipline: TRUE when guards exit last-constructed-first
    nd,            \* non_deterministic objects: [cls, deterministic_fn]
    instances,     \* DataPipe instances constructed through a decorator
    functions,     \* IterDataPipe.functions: registered name -> registered object
    pipes,         \* the attribute type of every IterDataPipe object
    hints,         \* get_type_hints(f) held by the wrapper of the validated constructor
    it,            \* the generator of a validated __iter__: [self, src, pos, yielded, status]
    op,            \* the most recent call: [name, obj, arg, target, values]
    ret            \* what it returned or raised: a value, or Raise(exc)

detVars == <<determinism, guards, nested, nd, instances>>
typVars == <<pipes, hints, it>>
vars == <<determinism, guards, nested, nd, instances, functions, pipes, hints, it, op, ret>>

\* Python objects and call results: [kind, val, arg, obj]; obj is the index
\* of the non_deterministic object the value belongs to (0 for none).
Raise(exc)       == [kind |-> "raise",    val |-> exc,  arg |-> None, obj |-> 0]
ReturnNone       == [kind |-> "return",   val |-> None, arg |-> None, obj |-> 0]
ReturnObject(i)  == [kind |-> "object",   val |-> "non_deterministic", arg |-> None, obj |-> i]
ReturnWrapper(i) == [kind |-> "method",   val |-> "deterministic_wrapper_fn", arg |-> None, obj |-> i]
Instance(c, a)   == [kind |-> "instance", val |-> c,    arg |-> a,    obj |-> 0]
ClassObject(c)   == [kind |-> "class",    val |-> c,    arg |-> None, obj |-> 0]
Function(f)      == [kind |-> "function", val |-> f,    arg |-> None, obj |-> 0]
\* list.append bound to some list: has __self__, which is no non_deterministic
ListAppend       == [kind |-> "method",   val |-> "append", arg |-> None, obj |-> 0]
\* an object that is no method and carries an attribute __self__ referring
\* to non_deterministic object i, e.g. types.SimpleNamespace(__self__=nd)
Namespace(i)     == [kind |-> "namespace", val |-> "SimpleNamespace", arg |-> None, obj |-> i]

\* the wrapper a validation decorator returns, and what the original
\* constructor returns when the wrapper calls it
ReturnFunction(f) == [kind |-> "function", val |-> f,  arg |-> None, obj |-> 0]
OriginalCalled   == [kind |-> "called",   val |-> "__init__", arg |-> None, obj |-> 0]
Yield(d)         == [kind |-> "yield",    val |-> d,    arg |-> None, obj |-> 0]

CallV(name, i, a, t, v) ==
    [name |-> name, obj |-> i, arg |-> a, target |-> t, values |-> v]
CallT(name, i, a, t) == CallV(name, i, a, t, << >>)
Call(name, i, a) == CallT(name, i, a, ReturnNone)

NoGenerator == [self |-> "p1", src |-> << >>, pos |-> 0, yielded |-> << >>, status |-> "idle"]

Init ==
    /\ determinism = FALSE
    /\ guards = << >>
    /\ nested \in BOOLEAN
    /\ nd = << >>
    /\ instances = {}
    /\ functions = [n \in FunctionNames |-> ReturnNone]
    /\ pipes = [p \in PipeIds |-> IF p = "p1" THEN "int" ELSE "str"]
    /\ hints = << >>
    /\ it = NoGenerator
    /\ op = Call("import", 0, None)
    /\ ret = ReturnNone

\* ------------------------------------------- guaranteed_datapipes_determinism
\* A constructor that records the flag and forgets to set it.
guard_init_keeps_flag == determinism

\* The value __init__ stores into the flag.
guard_init_flag == TRUE

\* guaranteed_datapipes_determinism.__init__
guard_init ==
    /\ Len(guards) < MaxGuards
    /\ guards' = Append(guards, [prev |-> determinism])
    /\ determinism' = guard_init_flag
    /\ op' = Call("guard_init", Len(guards) + 1, None)
    /\ ret' = ReturnNone
    /\ UNCHANGED <<nested, nd, instances, functions, typVars>>

\* guaranteed_datapipes_determinism.__enter__
guard_enter(g) ==
    /\ op' = Call("guard_enter", g, None)
    /\ ret' = ReturnNone
    /\ UNCHANGED <<detVars, functions, typVars>>

\* The sequence s without its element at position g.
RemoveAt(s, g) == SubSeq(s, 1, g - 1) \o SubSeq(s, g + 1, Len(s))

\* An exit that clears the flag instead of restoring the recorded value.
guard_exit_clears(g) == FALSE

\* An exit that leaves the flag as it is.
guard_exit_keeps_flag(g) == determinism

\* The value __exit__ of guard g stores into the flag.
guard_exit_flag(g) == guards[g].prev

\* guaranteed_datapipes_determinism.__exit__; exc is the exception the block
\* exits with ("None" for a normal exit).  __exit__ returns None, so an
\* exception is not suppressed.
guard_exit(g, exc) ==
    /\ nested => g = Len(guards)
    /\ determinism' = guard_exit_flag(g)
    /\ guards' = RemoveAt(guards, g)
    /\ op' = Call("guard_exit", g, exc)
    /\ ret' = IF exc = None THEN ReturnNone ELSE Raise(exc)
    /\ UNCHANGED <<nested, nd, instances, functions, typVars>>

\* ------------------------------------------------------- non_deterministic
\* non_deterministic.__init__
nd_init(arg) ==
    /\ Len(nd) < MaxND
    /\ op' = Call("nd_init", 0, arg)
    /\ IF IsType(arg)
       THEN IF ~IsSubclassIterDataPipe(arg)
            THEN /\ ret' = Raise("TypeError")
                 /\ nd' = nd
            ELSE /\ nd' = Append(nd, [cls |-> arg, deterministic_fn |-> None])
                 /\ ret' = ReturnObject(Len(nd) + 1)
       ELSE IF IsCallable(arg)
            THEN /\ nd' = Append(nd, [cls |-> None, deterministic_fn |-> arg])
                 /\ ret' = ReturnObject(Len(nd) + 1)
            ELSE /\ ret' = Raise("TypeError")
                 /\ nd' = nd
    /\ UNCHANGED <<determinism, guards, nested, instances, functions, typVars>>

\* A call that never consults the flag.
nd_call_never_rejects == FALSE

\* The test of non_deterministic.__call__ that rejects the construction.
nd_call_rejects == determinism

\* non_deterministic.__call__ with the single positional argument a
nd_call(i, a) ==
    /\ op' = Call("nd_call", i, a)
    /\ IF nd[i].cls # None
       THEN \* Decorate IterDataPipe
            IF nd_call_rejects
            THEN /\ ret' = Raise("TypeError")
                 /\ UNCHANGED <<nd, instances>>
            ELSE /\ ret' = Instance(nd[i].cls, a)
                 /\ instances' = instances \cup {<<nd[i].cls, a>>}
                 /\ nd' = nd
       ELSE \* Decorate with a functional argument
            IF ~(IsType(a) /\ IsSubclassIterDataPipe(a))
            THEN \* formatting the message reads args[0].__name__
                 /\ ret' = Raise(IF a \in Classes \cup Fns THEN "TypeError" ELSE "AttributeError")
                 /\ UNCHANGED <<nd, instances>>
            ELSE /\ nd' = [nd EXCEPT ![i].cls = a]
                 /\ ret' = ReturnWrapper(i)
                 /\ instances' = instances
    /\ UNCHANGED <<determinism, guards, nested, functions, typVars>>

\* A wrapper that rejects under the flag whatever deterministic_fn returned.
wrapper_rejects_ignoring_result(res) == determinism

\* The test of deterministic_wrapper_fn that rejects the construction.
wrapper_rejects(res) == determinism /\ res = "True"

\* non_deterministic.deterministic_wrapper_fn, the bound method returned by
\* the function-argument form, called with the single positional argument a
deterministic_wrapper_fn(i, a) ==
    /\ nd[i].deterministic_fn # None
    /\ nd[i].cls # None
    /\ op' = Call("deterministic_wrapper_fn", i, a)
    /\ LET res == FnResult(nd[i].deterministic_fn, a) IN
       IF ~IsBool(res)
       THEN /\ ret' = Raise("TypeError")
            /\ instances' = instances
       ELSE IF wrapper_rejects(res)
            THEN /\ ret' = Raise("TypeError")
                 /\ instances' = instances
            ELSE /\ ret' = Instance(nd[i].cls, a)
                 /\ instances' = instances \cup {<<nd[i].cls, a>>}
    /\ UNCHANGED <<determinism, guards, nested, nd, functions, typVars>>

\* ------------------------------------------------------ functional_datapipe
\* isinstance(t, non_deterministic)
IsNonDeterministic(t) == t.kind = "object" /\ t.val = "non_deterministic"

\* hasattr(t, '__self__')
HasSelf(t) == t.kind \in {"method", "namespace"}

\* isinstance(t.__self__, non_deterministic)
SelfIsNonDeterministic(t) == t.obj >= 1

\* IterDataPipe.register_datapipe_as_function(name, cls): the registry
\* after the call.
register_datapipe_as_function(name, cls) == [functions EXCEPT ![name] = cls]

\* A check that lets every object through that is not a class.
functional_datapipe_accepts_any_object(cls) ==
    IF cls.kind = "class" THEN IsSubclassIterDataPipe(cls.val) ELSE TRUE

\* The test of functional_datapipe.__call__ that lets the target through.
functional_datapipe_accepts(cls) ==
    IF cls.kind = "class"
    THEN IsSubclassIterDataPipe(cls.val)
    ELSE IsNonDeterministic(cls)
            \/ (HasSelf(cls) /\ SelfIsNonDeterministic(cls))

\* functional_datapipe(name)(cls)
functional_datapipe(name, cls) ==
    /\ op' = CallT("functional_datapipe", 0, name, cls)
    /\ IF ~functional_datapipe_accepts(cls)
       THEN /\ ret' = Raise("TypeError")
            /\ functions' = functions
       ELSE /\ functions' = register_datapipe_as_function(name, cls)
            /\ ret' = cls
    /\ UNCHANGED <<detVars, typVars>>

\* The objects the program can hand to functional_datapipe: classes, the
\* decorator objects built so far, their wrappers, and unrelated objects.
Targets ==
    {ClassObject(c) : c \in Classes}
        \cup {ReturnObject(i) : i \in 1..Len(nd)}
        \cup {ReturnWrapper(i) : i \in 1..Len(nd)}
        \cup {Namespace(i) : i \in 1..Len(nd)}
        \cup {Function("always"), ListAppend}

\* ------------------------------------------------ construct_time_validation
\* construct_time_validation(f), f named fname and hinted as sig
construct_time_validation(fname, sig) ==
    /\ op' = Call("construct_time_validation", 0, fname)
    /\ IF fname \notin {"__init__", "__new__"}
       THEN /\ ret' = Raise("TypeError")
            /\ hints' = hints
       ELSE /\ hints' = sig
            /\ ret' = ReturnFunction("wrapper")
    /\ UNCHANGED <<detVars, functions, pipes, it>>

\* A selection that validates every hinted argument, DataPipe hint or not.
every_hint_is_checked(hint) == hint # NoHint

\* The test that selects the arguments the wrapper validates.
hint_is_checked(hint) == hint # NoHint /\ hint.dp

\* The subtype test of the wrapper on a DataPipe of type t.
type_is_accepted(t, hint) == issubtype(t, hint.type)

\* The loop of the wrapper over bound.arguments from position k on, ps
\* being the DataPipes' types so far: the types it leaves and whether every
\* check passed.
RECURSIVE validate_arguments(_, _, _, _)
validate_arguments(hs, values, k, ps) ==
    IF k > Len(values)
    THEN [pipes |-> ps, ok |-> TRUE]
    ELSE LET hint == hs[k]
             value == values[k]
         IN IF hint_is_checked(hint)
            THEN IF ~IsIterDataPipe(value)
                 THEN [pipes |-> ps, ok |-> FALSE]
                 ELSE IF ~type_is_accepted(ps[value], hint)
                 THEN [pipes |-> ps, ok |-> FALSE]
                 ELSE \* Replace by subtype from hint
                      validate_arguments(hs, values, k + 1,
                          IF ps[value] # hint.type
                          THEN [ps EXCEPT ![value] = hint.type]
                          ELSE ps)
            ELSE validate_arguments(hs, values, k + 1, ps)

\* The wrapper of the validated constructor, called with the arguments
\* values.
ctv_wrapper(values) ==
    /\ hints # << >>
    /\ op' = CallV("ctv_wrapper", 0, None, ReturnNone, values)
    /\ LET r == validate_arguments(hints, values, 1, pipes) IN
         /\ pipes' = r.pipes
         /\ ret' = IF r.ok THEN OriginalCalled ELSE Raise("TypeError")
    /\ UNCHANGED <<detVars, functions, hints, it>>

\* ------------------------------------------------------- runtime_validation
\* runtime_validation(f), f named fname
runtime_validation(fname) ==
    /\ op' = Call("runtime_validation", 0, fname)
    /\ ret' = IF fname # "__iter__"
              THEN Raise("TypeError")
              ELSE ReturnFunction("wrapper")
    /\ UNCHANGED <<detVars, functions, typVars>>

\* Calling the wrapper on DataPipe self, whose __iter__ yields src: a fresh
\* generator, none of whose body has run.
rv_wrapper(self, src) ==
    /\ it' = [self |-> self, src |-> src, pos |-> 0, yielded |-> << >>,
              status |-> "running"]
    /\ op' = Call("rv_wrapper", 0, self)
    /\ ret' = [kind |-> "generator", val |-> self, arg |-> None, obj |-> 0]
    /\ UNCHANGED <<detVars, functions, pipes, hints>>

\* A wrapper that yields without checking.
item_is_always_accepted(self, d) == TRUE

\* The test of the wrapper on an item d of DataPipe self.
item_is_accepted(self, d) == issubtype_of_instance(pipes[self], d)

\* next() on the generator: runs the loop body up to the next yield.
rv_next ==
    /\ it.status # "idle"
    /\ op' = Call("rv_next", 0, it.self)
    /\ IF it.status # "running"
       THEN \* a generator that returned or raised is exhausted
            /\ ret' = Raise("StopIteration")
            /\ it' = it
       ELSE IF it.pos = Len(it.src)
       THEN /\ ret' = Raise("StopIteration")
            /\ it' = [it EXCEPT !.status = "done"]
       ELSE LET d == it.src[it.pos + 1] IN
            IF ~item_is_accepted(it.self, d)
            THEN /\ ret' = Raise("TypeError")
                 /\ it' = [it EXCEPT !.pos = @ + 1, !.status = "raised"]
            ELSE /\ ret' = Yield(d)
                 /\ it' = [it EXCEPT !.pos = @ + 1, !.yielded = Append(@, d)]
    /\ UNCHANGED <<detVars, functions, pipes, hints>>

\* ------------------------------------------------------------------ system
Next ==
    \/ guard_init
    \/ \E g \in 1..Len(guards) : guard_enter(g)
    \/ \E g \in 1..Len(guards), exc \in {None, "ValueError"} : guard_exit(g, exc)
    \/ \E arg \in Classes \cup Fns \cup NonCallables : nd_init(arg)
    \/ \E i \in 1..Len(nd), a \in DataArgs \cup Classes : nd_call(i, a)
    \/ \E i \in 1..Len(nd), a \in DataArgs : deterministic_wrapper_fn(i, a)

Spec == Init /\ [][Next]_vars

\* The decorators applied to classes and registered.
NextFunctional ==
    \/ \E arg \in Classes \cup Fns \cup NonCallables : nd_init(arg)
    \/ \E i \in 1..Len(nd), a \in Classes : nd_call(i, a)
    \/ \E name \in FunctionNames, t \in Targets : functional_datapipe(name, t)

SpecFunctional == Init /\ [][NextFunctional]_vars

\* Constructors wrapped by construct_time_validation, called on the
\* DataPipes of the program.
NextConstruct ==
    \/ \E fname \in {"__init__", "__new__", "forward"}, sig \in Signatures :
          construct_time_validation(fname, sig)
    \/ \E values \in ArgLists : ctv_wrapper(values)

SpecConstruct == Init /\ [][NextConstruct]_vars

\* A DataPipe iterated through runtime_validation, while it may also be
\* handed to a validated constructor whose first parameter is hinted
\* DataPipe[Any].
NextRuntime ==
    \/ \E fname \in {"__iter__", "__getitem__"} : runtime_validation(fname)
    \/ \E self \in PipeIds, src \in Sources : rv_wrapper(self, src)
    \/ rv_next
    \/ construct_time_validation("__init__", [k \in 1..NumParams |->
          IF k = 1 THEN DataPipeHint("Any") ELSE NoHint])
    \/ \E p \in PipeIds : ctv_wrapper(<<p>>)

SpecRuntime == Init /\ [][NextRuntime]_vars

\* ------------------------------------------------------------------ claims
\* Object i of nd was built in the no-argument form, non_deterministic(Cls).
IsNoArgForm(i) == nd[i].cls # None /\ nd[i].deterministic_fn = None

\* C1: a call of a class decorated in the no-argument form raises TypeError
\* and constructs nothing when the flag is True, and constructs and returns
\* Cls(*args) when the flag is False.
C1_NoArgumentForm ==
    [][op'.name = "nd_call" /\ IsNoArgForm(op'.obj) =>
          IF determinism
          THEN ret' = Raise("TypeError") /\ instances' = instances
          ELSE /\ ret' = Instance(nd[op'.obj].cls, op'.arg)
               /\ instances' = instances \cup {<<nd[op'.obj].cls, op'.arg>>}]_vars

\* a no-argument-form call was rejected inside a guard
C1_Witness ==
    /\ op.name = "nd_call"
    /\ IsNoArgForm(op.obj)
    /\ determinism
    /\ guards # << >>
    /\ ret = Raise("TypeError")

\* C2: the wrapper of the function-argument form evaluates fn on the
\* arguments; it raises TypeError when the result is no boolean, raises
\* TypeError when the flag is True and fn returned True, and otherwise
\* constructs and returns Cls with the same arguments.
C2_FunctionArgumentForm ==
    [][op'.name = "deterministic_wrapper_fn" =>
          LET i == op'.obj
              a == op'.arg
              res == FnResult(nd[i].deterministic_fn, a)
          IN IF ~IsBool(res)
             THEN ret' = Raise("TypeError") /\ instances' = instances
             ELSE IF determinism /\ res = "True"
             THEN ret' = Raise("TypeError") /\ instances' = instances
             ELSE /\ ret' = Instance(nd[i].cls, a)
                  /\ instances' = instances \cup {<<nd[i].cls, a>>}]_vars

\* under the flag, an instance fn reports as deterministic was constructed
C2_Witness ==
    /\ op.name = "deterministic_wrapper_fn"
    /\ determinism
    /\ FnResult(nd[op.obj].deterministic_fn, op.arg) = "False"
    /\ ret = Instance(nd[op.obj].cls, op.arg)

\* C3: with properly nested guards, construction records the flag and sets
\* it True, __enter__ changes nothing, __exit__ restores the recorded value
\* whether or not the block raised; so the flag is True while any guard is
\* alive, and the exit of the outermost guard restores the value from before
\* its construction.
C3_NestedLifecycle ==
    /\ [](nested /\ guards # << >> => determinism)
    /\ [][nested =>
            /\ op'.name = "guard_init" =>
                  /\ guards' = Append(guards, [prev |-> determinism])
                  /\ determinism' = TRUE
            /\ op'.name = "guard_enter" => UNCHANGED <<determinism, guards>>
            /\ op'.name = "guard_exit" =>
                  /\ determinism' = guards[Len(guards)].prev
                  /\ guards' = SubSeq(guards, 1, Len(guards) - 1)
                  /\ Len(guards) = 1 => determinism' = FALSE]_vars

\* an inner guard has exited with an exception and the outer one is alive
C3_Witness ==
    /\ nested
    /\ op.name = "guard_exit"
    /\ op.arg = "ValueError"
    /\ Len(guards) = 1
    /\ determinism

\* The most recent call was one of a no-argument-form class.
NoArgFormCalled ==
    op.name = "nd_call" /\ IsNoArgForm(op.obj)

\* C7 as stated: for any interleaving of constructions and exits the flag
\* is True while a guard is alive, and a no-argument-form call made then
\* raises TypeError.
C7_AnyInterleaving ==
    guards # << >> =>
        /\ determinism
        /\ NoArgFormCalled => ret = Raise("TypeError")

\* C7 amended: when guards exit last-constructed-first, the flag is True
\* while a guard is alive, and a no-argument-form call made then raises
\* TypeError.
C7_NestedInterleaving ==
    nested /\ guards # << >> =>
        /\ determinism
        /\ NoArgFormCalled => ret = Raise("TypeError")

\* a no-argument-form call was rejected inside two nested guards
C7_Witness ==
    /\ nested
    /\ Len(guards) = 2
    /\ NoArgFormCalled
    /\ ret = Raise("TypeError")

\* C8 as stated: whenever no guard is alive the flag is False, in whatever
\* order the guards exited.
C8_AnyOrder == guards = << >> => determinism = FALSE

\* C8 amended: when guards exit last-constructed-first, the flag is False
\* whenever no guard is alive.
C8_NestedOrder == nested /\ guards = << >> => determinism = FALSE

\* the last guard alive has just exited
C8_Witness ==
    /\ nested
    /\ op.name = "guard_exit"
    /\ guards = << >>
    /\ ~determinism

\* The step functional_datapipe(name)(target) takes when it lets the target
\* through (ok) and when it does not.
RegistrationOutcome(ok) ==
    IF ok
    THEN /\ functions' = [functions EXCEPT ![op'.arg] = op'.target]
         /\ ret' = op'.target
    ELSE /\ ret' = Raise("TypeError")
         /\ functions' = functions

\* (a) an IterDataPipe subclass, (b) a non_deterministic instance
IsDecoratedOrSubclass(t) ==
    \/ t.kind = "class" /\ t.val \in IterDataPipeClasses
    \/ t.kind = "object" /\ t.val = "non_deterministic"

\* C4 as stated: the target is registered and returned iff it is (a), (b)
\* or (c) a bound method whose __self__ is a non_deterministic instance;
\* every other target raises TypeError and leaves the registry alone.
C4_BoundMethodOnly ==
    [][op'.name = "functional_datapipe" =>
          RegistrationOutcome(
              \/ IsDecoratedOrSubclass(op'.target)
              \/ op'.target.kind = "method" /\ op'.target.obj >= 1)]_vars

\* C4 amended: (c) is any object that is no class and has an attribute
\* __self__ that is a non_deterministic instance, bound method or not.
C4_AnyObjectWithSelf ==
    [][op'.name = "functional_datapipe" =>
          RegistrationOutcome(
              \/ IsDecoratedOrSubclass(op'.target)
              \/ /\ op'.target.kind \in {"method", "namespace"}
                 /\ op'.target.obj >= 1)]_vars

\* the wrapper of the function-argument form is registered, and an
\* unrelated bound method has just been refused
C4_Witness ==
    /\ op.name = "functional_datapipe"
    /\ op.target = ListAppend
    /\ ret = Raise("TypeError")
    /\ \E n \in FunctionNames : functions[n].kind = "method"

\* C5: the wrapper calls the original constructor only when every passed
\* argument hinted with a DataPipe type is an IterDataPipe whose type is a
\* subtype of the hint's; when one is not it raises TypeError without
\* calling it; arguments without a DataPipe hint never cause a rejection.
C5_ConstructTime ==
    [][op'.name = "ctv_wrapper" =>
          LET h == hints
              v == op'.values
              checked == {k \in 1..Len(v) : h[k].dp}
              conforms(k) ==
                  v[k] \in PipeIds /\ issubtype(pipes[v[k]], h[k].type)
          IN /\ ret' \in {OriginalCalled, Raise("TypeError")}
             /\ ret' = OriginalCalled => \A k \in checked : conforms(k)
             /\ (\E k \in checked : ~conforms(k)) => ret' = Raise("TypeError")
             /\ checked = {} => ret' = OriginalCalled]_vars

\* a call was rejected for its DataPipe-hinted second argument, after an
\* unhinted first argument that is no DataPipe
C5_Witness ==
    /\ op.name = "ctv_wrapper"
    /\ Len(op.values) = 2
    /\ hints[1] = NoHint /\ op.values[1] = "x"
    /\ hints[2] = DataPipeHint("int") /\ op.values[2] = "p2"
    /\ ret = Raise("TypeError")

\* The longest prefix of s whose items are all instances of a subtype of t.
RECURSIVE LongestPassingPrefix(_, _)
LongestPassingPrefix(s, t) ==
    IF s = << >> \/ ~issubtype_of_instance(t, Head(s))
    THEN << >>
    ELSE <<Head(s)>> \o LongestPassingPrefix(Tail(s), t)

\* C6: the validated __iter__ yields the underlying items in order, each
\* checked against self.type first; at the first item that fails it raises
\* TypeError, after which nothing is yielded or consumed; when none fails
\* it ends after all items.  When the iteration ends, either way, what it
\* has yielded is the longest prefix of the underlying sequence that passes
\* the check.
C6_RuntimeValidation ==
    /\ [](/\ it.yielded = SubSeq(it.src, 1, Len(it.yielded))
          /\ \A k \in 1..Len(it.yielded) :
                 issubtype_of_instance(pipes[it.self], it.yielded[k])
          /\ it.status = "done" => it.yielded = it.src
          /\ it.status = "raised" => it.pos = Len(it.yielded) + 1
          /\ it.status # "raised" => it.pos = Len(it.yielded))
    /\ [][op'.name = "rv_next" /\ it.status = "running" /\ it'.status # "running" =>
            it'.yielded = LongestPassingPrefix(it.src, pipes[it.self])]_vars
    /\ [][op'.name = "rv_next" =>
            IF it.status # "running"
            THEN it' = it /\ ret' = Raise("StopIteration")
            ELSE IF it.pos = Len(it.src)
            THEN /\ it' = [it EXCEPT !.status = "done"]
                 /\ ret' = Raise("StopIteration")
            ELSE LET d == it.src[it.pos + 1] IN
                 IF issubtype_of_instance(pipes[it.self], d)
                 THEN /\ ret' = Yield(d)
                      /\ it'.yielded = Append(it.yielded, d)
                      /\ it'.status = "running"
                 ELSE /\ ret' = Raise("TypeError")
                      /\ it'.yielded = it.yielded
                      /\ it'.status = "raised"]_vars

\* the iteration raised at its second item, with a third never consumed
C6_Witness ==
    /\ it.status = "raised"
    /\ Len(it.src) = 3
    /\ it.yielded = <<it.src[1]>>
    /\ it.pos = 2
    /\ ret = Raise("TypeError")

====
